---- MODULE Spec2Model ----
(***************************************************************************)
(* The three offline training scripts of the repository,                   *)
(*   scripts/trainModel.py             (compute-unit regression),          *)
(*   scripts/trainPriorityFeeML.py     (priority-fee regression),          *)
(*   scripts/trainSuccessClassifier.py (success classification),           *)
(* as one state machine: one run of one script, one action per block of    *)
(* the script, in program order.                                           *)
(*                                                                         *)
(* A dataset is a sequence of groups [idx, cnt, rec]: cnt identical        *)
(* records rec at consecutive positions of the JSON array (idx is the      *)
(* DataFrame index label of the group, kept by pandas through filters).    *)
(* The random forest is opaque: fit and predict produce tokens.            *)
(***************************************************************************)
EXTENDS Integers, Sequences, FiniteSets, TLC

VARIABLES
    script,          \* which of the three scripts runs
    pc,              \* the block of the script that runs next
    status,          \* "running", "exit0" or "exit1"
    error,           \* what ended the run, "none" while it runs or succeeds
    inputFile,       \* the JSON input file: [state, records]
    data,            \* json.load(f)
    df,              \* pd.DataFrame(data), with the columns added to it
    df_success,      \* the filtered frame of trainModel / trainPriorityFeeML
    feature_columns, \* the script's feature_columns list
    X,               \* rows [idx, cnt, vec] of frame[feature_columns].values
    y,               \* the target values, aligned with X
    split,           \* [n_train, n_test, train, test]: result of train_test_split
    model,           \* the fitted estimator
    metrics,         \* the evaluation metrics
    modelFile,       \* the model artifact on disk: [state, content]
    metaFile,        \* the metadata file on disk: [state, content]
    medianOver,      \* history: [idx, cnt] of the rows the median was taken over
    trace            \* history: the blocks executed so far, in order

vars == <<script, pc, status, error, inputFile, data, df, df_success,
          feature_columns, X, y, split, model, metrics, modelFile, metaFile,
          medianOver, trace>>

----------------------------------------------------------------------------
(* Bounds of the model *)

\* longest run of single records after the bulk group of a dataset
MaxTail == 2
\* largest number of records of one class in the datasets of SpecClassifier
MaxClass == 8

----------------------------------------------------------------------------
(* Program constants *)

TM == "trainModel"
PF == "trainPriorityFeeML"
SC == "trainSuccessClassifier"
Scripts == {TM, PF, SC}

JUPITER == "JUP6LkbZbjS1jKKwapdHNy74zcZ3tLUZoi5QNyVTaV4"
RAYDIUM == "675kPX9MHTjS2zt1qfr1NYHuzeLXfQM9H24wFSUt1Mp8"
\* a program identifier that is neither of the two
OTHER_PROGRAM == "ComputeBudget111111111111111111111111111111"
ProgramIds == {JUPITER, RAYDIUM, OTHER_PROGRAM}

\* `if len(df_success) < 50`
MIN_SAMPLES == 50
\* 'n_estimators': 100
N_ESTIMATORS == 100
\* a null / missing computeUnitsUsed, NaN in the DataFrame
NaN == -1

\* the name of the program column in the script's input
ProgramColumn(s) == IF s = TM THEN "program" ELSE "programId"

FeatureColumnsTM == <<"instructionCount", "accountCount", "dataSize",
                      "priorityFee", "networkCongestion",
                      "program_jupiter", "program_raydium">>
FeatureColumnsPF == <<"instructionCount", "accountCount", "computeUnitsUsed",
                      "slotTime", "program_jupiter", "program_raydium">>
FeatureColumnsSC == <<"instructionCount", "accountCount", "computeUnitsUsed",
                      "priorityFee", "slotTime",
                      "program_jupiter", "program_raydium">>

----------------------------------------------------------------------------
(* Helpers on sequences *)

Min(a, b) == IF a < b THEN a ELSE b

RECURSIVE SumSeq(_)
SumSeq(s) == IF s = <<>> THEN 0 ELSE Head(s) + SumSeq(Tail(s))

Range(s) == {s[i] : i \in DOMAIN s}

\* len(frame): the number of records of a frame
Rows(frame) == SumSeq([i \in DOMAIN frame |-> frame[i].cnt])

\* the provenance of the rows of a frame or of X
Ids(frame) == [i \in DOMAIN frame |-> [idx |-> frame[i].idx, cnt |-> frame[i].cnt]]

----------------------------------------------------------------------------
(* The input: transaction records and datasets *)

\* One transaction record of the script's input file.  The columns the
\* model does not vary carry fixed values, distinct per column.
Record(s, success, program, fee, cu) ==
    IF s = TM
    THEN [success |-> success, program |-> program, instructionCount |-> 3,
          accountCount |-> 7, dataSize |-> 64, priorityFee |-> fee,
          networkCongestion |-> 2, computeUnitsUsed |-> cu, slotTime |-> 400]
    ELSE [success |-> success, programId |-> program, instructionCount |-> 3,
          accountCount |-> 7, dataSize |-> 64, priorityFee |-> fee,
          networkCongestion |-> 2, computeUnitsUsed |-> cu, slotTime |-> 400]

Successes == <<TRUE, FALSE>>
Programs == <<JUPITER, RAYDIUM, OTHER_PROGRAM>>
Fees == <<5, 0>>
ComputeUnits == <<300, NaN>>

NumTemplates == Len(Successes) * Len(Programs) * Len(Fees) * Len(ComputeUnits)

\* the t-th record of the cross product of the four varied columns
TemplateAt(s, t) ==
    Record(s, Successes[(t % 2) + 1], Programs[((t \div 2) % 3) + 1],
           Fees[((t \div 6) % 2) + 1], ComputeUnits[((t \div 12) % 2) + 1])

\* the bulk of a dataset: b records that pass the success and fee filters,
\* all with or all without computeUnitsUsed
BulkRecord(s, cu) == Record(s, TRUE, JUPITER, 5, cu)
BulkCounts == {MIN_SAMPLES - 1, MIN_SAMPLES}
BulkComputeUnits == {100, NaN}

\* the tails: up to MaxTail single records (the order of the records of a
\* dataset reaches nothing but the shuffle, which is arbitrary, so tails are
\* taken in non-decreasing template order)
Tails == {q \in UNION {[1..k -> 0..(NumTemplates - 1)] : k \in 0..MaxTail} :
              \A i \in 1..(Len(q) - 1) : q[i] <= q[i + 1]}

\* the records of tail q, from position b of the array on
TailGroups(s, b, q) ==
    [i \in 1..Len(q) |-> [idx |-> b + i - 1, cnt |-> 1, rec |-> TemplateAt(s, q[i])]]

\* b bulk records followed by the records of tail q
Dataset(s, b, cu, q) ==
    <<[idx |-> 0, cnt |-> b, rec |-> BulkRecord(s, cu)]>> \o TailGroups(s, b, q)

Datasets(s) ==
    {TailGroups(s, 0, q) : q \in Tails}
    \cup {Dataset(s, b, cu, q) : b \in BulkCounts, cu \in BulkComputeUnits, q \in Tails}

\* a successes followed by b failures (the failures carry no computeUnitsUsed)
ClassDataset(a, b) ==
    (IF a > 0 THEN <<[idx |-> 0, cnt |-> a, rec |-> Record(SC, TRUE, JUPITER, 5, 100)]>>
     ELSE <<>>)
    \o (IF b > 0 THEN <<[idx |-> a, cnt |-> b, rec |-> Record(SC, FALSE, RAYDIUM, 5, NaN)]>>
        ELSE <<>>)

ClassDatasets == {ClassDataset(a, b) : a \in 0..MaxClass, b \in 0..MaxClass}

AbsentFile == [state |-> "absent", records |-> <<>>]
MalformedFile == [state |-> "malformed", records |-> <<>>]
JsonFile(records) == [state |-> "json", records |-> records]

----------------------------------------------------------------------------
(* pandas: columns, filters, one-hot flags, median, fillna *)

\* faulty variant: a frame built from no records has every column
ColumnExists_Always(d, col) == TRUE

\* pd.DataFrame(list of dicts) has a column for every key of some record;
\* frame[col] of a column it does not have raises KeyError
ColumnExists(d, col) == \E i \in DOMAIN d : col \in DOMAIN d[i].rec
ColumnsExist(d, cols) == \A c \in cols : ColumnExists(d, c)

IsSuccess(g) == g.rec.success = TRUE
HasPositiveFee(g) == g.rec.priorityFee > 0
HasComputeUnits(g) == g.rec.computeUnitsUsed # NaN

\* (frame[col] == '<identifier>').astype(int)
ProgramJupiter(p) == IF p = JUPITER THEN 1 ELSE 0
\* faulty variant: the second line copied from the first, the identifier not changed
ProgramRaydium_CopyPasted(p) == IF p = JUPITER THEN 1 ELSE 0
ProgramRaydium(p) == IF p = RAYDIUM THEN 1 ELSE 0

\* frame['program_jupiter'] = ...; frame['program_raydium'] = ...
OneHot(frame, col) ==
    [i \in DOMAIN frame |->
        [frame[i] EXCEPT !.rec =
            [program_jupiter |-> ProgramJupiter(frame[i].rec[col]),
             program_raydium |-> ProgramRaydium(frame[i].rec[col])] @@ @]]

\* the values of computeUnitsUsed in the frame that are not NaN
Present(frame) == {i \in DOMAIN frame : frame[i].rec.computeUnitsUsed # NaN}
CountPresent(frame) == SumSeq([i \in DOMAIN frame |->
                                  IF i \in Present(frame) THEN frame[i].cnt ELSE 0])
CountAtMost(frame, v) ==
    SumSeq([i \in DOMAIN frame |->
               IF i \in Present(frame) /\ frame[i].rec.computeUnitsUsed <= v
               THEN frame[i].cnt ELSE 0])

\* the k-th smallest present value, k in 1..CountPresent(frame)
Kth(frame, k) ==
    CHOOSE v \in {frame[i].rec.computeUnitsUsed : i \in Present(frame)} :
        /\ CountAtMost(frame, v) >= k
        /\ \A w \in {frame[i].rec.computeUnitsUsed : i \in Present(frame)} :
               CountAtMost(frame, w) >= k => v <= w

\* frame['computeUnitsUsed'].median(): NaN values are skipped; the median of
\* no values is NaN; of an even number, the mean of the two middle ones
Median(frame) ==
    LET m == CountPresent(frame) IN
    IF m = 0 THEN NaN
    ELSE IF m % 2 = 1 THEN Kth(frame, (m + 1) \div 2)
    ELSE (Kth(frame, m \div 2) + Kth(frame, (m \div 2) + 1)) \div 2

\* frame['computeUnitsUsed'].fillna(v): a NaN value v fills nothing
FillNa(frame, v) ==
    [i \in DOMAIN frame |->
        IF frame[i].rec.computeUnitsUsed = NaN
        THEN [frame[i] EXCEPT !.rec.computeUnitsUsed = v]
        ELSE frame[i]]

\* frame[feature_columns].values, one row per group
FeatureVector(rec, cols) == [j \in 1..Len(cols) |-> rec[cols[j]]]
Features(frame, cols) ==
    [i \in DOMAIN frame |->
        [idx |-> frame[i].idx, cnt |-> frame[i].cnt,
         vec |-> FeatureVector(frame[i].rec, cols)]]

\* does a feature row hold a NaN
RowHasNaN(row) == \E j \in DOMAIN row.vec : row.vec[j] = NaN

----------------------------------------------------------------------------
(* sklearn.model_selection.train_test_split(X, y, test_size=0.2,           *)
(* random_state=42[, stratify=y]).  The seeded permutation is opaque: the  *)
(* model takes every permutation.  A split is [n_train, n_test, train,     *)
(* test], train and test giving, per group of X, how many of its records   *)
(* the subset holds.                                                       *)

\* n_test = ceil(0.2 * n): the double 0.2 * n lies above n / 5 by less than
\* half a unit in the last place, so the ceiling is that of n / 5
NTest(n) == (n + 4) \div 5
\* faulty variant: train_size=0.7 passed next to test_size=0.2
NTrain_TrainSize(n) == (7 * n) \div 10
\* train_size is None: n_train = n - n_test
NTrain(n) == n - NTest(n)

Minus(a, b) == [i \in DOMAIN a |-> a[i] - b[i]]

\* the ways to take k records out of groups of sizes cnts
RECURSIVE Allocs(_, _)
Allocs(cnts, k) ==
    IF cnts = <<>> THEN (IF k = 0 THEN {<<>>} ELSE {})
    ELSE UNION {{<<j>> \o rest : rest \in Allocs(Tail(cnts), k - j)} :
                    j \in 0..Min(Head(cnts), k)}

\* ShuffleSplit: test = permutation[:n_test],
\* train = permutation[n_test:n_test + n_train]
ShuffleSplits(cnts) ==
    LET n == SumSeq(cnts) IN
    UNION {{[n_train |-> NTrain(n), n_test |-> NTest(n), train |-> tr, test |-> te] :
               tr \in Allocs(Minus(cnts, te), NTrain(n))} :
           te \in Allocs(cnts, NTest(n))}

\* the number of records of class c
ClassCount(cnts, labels, c) ==
    SumSeq([i \in DOMAIN cnts |-> IF labels[i] = c THEN cnts[i] ELSE 0])

RECURSIVE SumFn(_)
SumFn(f) == IF DOMAIN f = {} THEN 0
            ELSE LET c == CHOOSE c \in DOMAIN f : TRUE
                 IN f[c] + SumFn([d \in DOMAIN f \ {c} |-> f[d]])

\* the loop of _approximate_mode: the classes of largest remainder first,
\* rng.choice among equal remainders
RECURSIVE AddByRemainder(_, _, _, _)
AddByRemainder(floored, rem, need, pending) ==
    IF need = 0 \/ pending = {} THEN {floored}
    ELSE LET top == {c \in pending : \A d \in pending : rem[d] <= rem[c]}
             add_now == Min(Cardinality(top), need)
         IN UNION {AddByRemainder([c \in DOMAIN floored |->
                                      IF c \in inds THEN floored[c] + 1 ELSE floored[c]],
                                  rem, need - add_now, pending \ top) :
                      inds \in {S \in SUBSET top : Cardinality(S) = add_now}}

\* _approximate_mode(class_counts, n_draws, rng): floor of
\* class_counts / class_counts.sum() * n_draws, the draws left over given to
\* the classes of largest remainder (in exact arithmetic; remainders that
\* differ in the doubles only are among the ties taken here)
ApproximateMode(cc, n_draws) ==
    LET total == SumFn(cc)
        floored == [c \in DOMAIN cc |-> (cc[c] * n_draws) \div total]
        rem == [c \in DOMAIN cc |-> (cc[c] * n_draws) % total]
    IN AddByRemainder(floored, rem, n_draws - SumFn(floored), DOMAIN cc)

\* the allocations of a that give every class c exactly want[c] records
WithClassSums(as, labels, want) ==
    {a \in as : \A c \in DOMAIN want : ClassCount(a, labels, c) = want[c]}

\* StratifiedShuffleSplit raises ValueError on these
StratifyFails(cnts, labels) ==
    LET n == SumSeq(cnts)
        classes == Range(labels)
    IN \/ NTrain(n) = 0
       \/ \E c \in classes : ClassCount(cnts, labels, c) < 2
       \/ NTrain(n) < Cardinality(classes)
       \/ NTest(n) < Cardinality(classes)

\* faulty variant: stratify=y left out of the call
StratifiedSplits_Unstratified(cnts, labels) == ShuffleSplits(cnts)

\* StratifiedShuffleSplit: n_i = _approximate_mode(class_counts, n_train),
\* t_i = _approximate_mode(class_counts - n_i, n_test); of the permutation of
\* each class the first n_i go to train and the next t_i to test
StratifiedSplits(cnts, labels) ==
    LET n == SumSeq(cnts)
        cc == [c \in Range(labels) |-> ClassCount(cnts, labels, c)]
    IN UNION {UNION {UNION {
           {[n_train |-> NTrain(n), n_test |-> NTest(n), train |-> tr, test |-> te] :
               te \in WithClassSums(Allocs(Minus(cnts, tr), NTest(n)), labels, t_i)} :
           tr \in WithClassSums(Allocs(cnts, NTrain(n)), labels, n_i)} :
           t_i \in ApproximateMode([c \in DOMAIN cc |-> cc[c] - n_i[c]], NTest(n))} :
           n_i \in ApproximateMode(cc, NTrain(n))}

NoSplit == [n_train |-> 0, n_test |-> 0, train |-> <<>>, test |-> <<>>]

\* len(X_train), len(X_test)
LenTrain(sp) == SumSeq(sp.train)
LenTest(sp) == SumSeq(sp.test)

----------------------------------------------------------------------------
(* The run *)

NoFile == [state |-> "untouched", content |-> <<>>]
NoModel == [kind |-> "none"]

InitRun(s, file) ==
    /\ script = s
    /\ inputFile = file
    /\ pc = "load"
    /\ status = "running"
    /\ error = "none"
    /\ data = <<>>
    /\ df = <<>>
    /\ df_success = <<>>
    /\ feature_columns = <<>>
    /\ X = <<>>
    /\ y = <<>>
    /\ split = NoSplit
    /\ model = NoModel
    /\ metrics = <<>>
    /\ modelFile = NoFile
    /\ metaFile = NoFile
    /\ medianOver = <<>>
    /\ trace = <<>>

Init ==
    \E s \in Scripts :
        \E file \in {AbsentFile, MalformedFile} \cup {JsonFile(d) : d \in Datasets(s)} :
            InitRun(s, file)

\* the classification script alone, on datasets of two classes
InitClassifier ==
    \E file \in {AbsentFile, MalformedFile} \cup {JsonFile(d) : d \in ClassDatasets} :
        InitRun(SC, file)

\* an uncaught exception: the interpreter prints the traceback and exits 1
Abort(err) ==
    /\ pc' = "done"
    /\ status' = "exit1"
    /\ error' = err

Goto(next) ==
    /\ pc' = next
    /\ UNCHANGED <<status, error>>

At(s, block) ==
    /\ script = s
    /\ pc = block
    /\ status = "running"
    /\ trace' = Append(trace, block)

inputVars == <<script, inputFile>>
frameVars == <<data, df, df_success, medianOver>>
arrayVars == <<feature_columns, X, y>>
fitVars == <<split, model, metrics>>
fileVars == <<modelFile, metaFile>>

\* with open(<input>, 'r') as f: data = json.load(f); df = pd.DataFrame(data)
Load(next) ==
    /\ IF inputFile.state = "absent"
       THEN Abort("FileNotFoundError") /\ UNCHANGED <<data, df>>
       ELSE IF inputFile.state = "malformed"
       THEN Abort("JSONDecodeError") /\ UNCHANGED <<data, df>>
       ELSE /\ data' = inputFile.records
            /\ df' = inputFile.records
            /\ Goto(next)
    /\ UNCHANGED <<inputVars, df_success, medianOver, arrayVars, fitVars, fileVars>>

\* X_train, X_test, y_train, y_test = train_test_split(X, y, ...)
\* ValueError when the train set would be empty
Split(next) ==
    /\ LET cnts == [i \in DOMAIN X |-> X[i].cnt] IN
       IF NTrain(SumSeq(cnts)) = 0
       THEN Abort("ValueError") /\ UNCHANGED split
       ELSE /\ \E sp \in ShuffleSplits(cnts) : split' = sp
            /\ Goto(next)
    /\ UNCHANGED <<inputVars, frameVars, arrayVars, model, metrics, fileVars>>

\* the rows of X_train hold a NaN
TrainHasNaN == \E i \in DOMAIN X : split.train[i] > 0 /\ RowHasNaN(X[i])

\* the classes of y_train
TrainClasses == {y[i] : i \in {j \in DOMAIN y : split.train[j] > 0}}

\* model = RandomForest...(n_estimators=100, ...); model.fit(X_train, y_train)
\* A NaN in X_train is a ValueError in the releases of the library whose
\* forests do not take missing values, and fitted over in the others.
Fit(kind, next) ==
    /\ \E missingOk \in BOOLEAN :
        IF TrainHasNaN /\ ~missingOk
        THEN Abort("ValueError") /\ UNCHANGED model
        ELSE /\ model' = [kind |-> kind, n_estimators |-> N_ESTIMATORS,
                          n_features |-> Len(feature_columns),
                          n_samples |-> LenTrain(split),
                          classes |-> IF kind = "RandomForestClassifier"
                                      THEN TrainClasses ELSE {}]
             /\ Goto(next)
    /\ UNCHANGED <<inputVars, frameVars, arrayVars, split, metrics, fileVars>>

\* joblib.dump(model, model_path), after os.makedirs where the script has it.
\* The write succeeds, fails before the file is opened, or fails midway.
DumpModel(next) ==
    /\ \E outcome \in {"written", "untouched", "partial"} :
        /\ modelFile' = IF outcome = "untouched" THEN modelFile
                        ELSE [state |-> outcome, content |-> model]
        /\ IF outcome = "written" THEN Goto(next) ELSE Abort("OSError")
    /\ UNCHANGED <<inputVars, frameVars, arrayVars, fitVars, metaFile>>

\* with open(metadata_path, 'w') as f: json.dump(metadata, f, indent=2)
DumpMetadata(metadata) ==
    /\ \E outcome \in {"written", "untouched", "partial"} :
        /\ metaFile' = IF outcome = "untouched" THEN metaFile
                       ELSE [state |-> outcome, content |-> metadata]
        /\ IF outcome = "written"
           THEN pc' = "done" /\ status' = "exit0" /\ UNCHANGED error
           ELSE Abort("OSError")
    /\ UNCHANGED <<inputVars, frameVars, arrayVars, fitVars, modelFile>>

----------------------------------------------------------------------------
(* scripts/trainModel.py *)

TM_Load == At(TM, "load") /\ Load("filter")

\* df_success = df[df['success'] == True].copy()
\* df_success = df_success[df_success['computeUnitsUsed'].notna()]
TM_Filter ==
    /\ At(TM, "filter")
    /\ IF ~ColumnsExist(df, {"success", "computeUnitsUsed"})
       THEN Abort("KeyError") /\ UNCHANGED df_success
       ELSE /\ df_success' = SelectSeq(SelectSeq(df, IsSuccess), HasComputeUnits)
            /\ Goto("encode")
    /\ UNCHANGED <<inputVars, data, df, medianOver, arrayVars, fitVars, fileVars>>

TM_Encode ==
    /\ At(TM, "encode")
    /\ IF ~ColumnExists(df, "program")
       THEN Abort("KeyError") /\ UNCHANGED df_success
       ELSE /\ df_success' = OneHot(df_success, "program")
            /\ Goto("build")
    /\ UNCHANGED <<inputVars, data, df, medianOver, arrayVars, fitVars, fileVars>>

\* X = df_success[feature_columns].values; y = df_success['computeUnitsUsed'].values
TM_BuildXy ==
    /\ At(TM, "build")
    /\ feature_columns' = FeatureColumnsTM
    /\ IF ~ColumnsExist(df, {"instructionCount", "accountCount", "dataSize",
                             "priorityFee", "networkCongestion"})
       THEN Abort("KeyError") /\ UNCHANGED <<X, y>>
       ELSE /\ X' = Features(df_success, feature_columns')
            /\ y' = [i \in DOMAIN df_success |-> df_success[i].rec.computeUnitsUsed]
            /\ Goto("split")
    /\ UNCHANGED <<inputVars, frameVars, fitVars, fileVars>>

TM_Split == At(TM, "split") /\ Split("fit")

TM_Fit == At(TM, "fit") /\ Fit("RandomForestRegressor", "evaluate")

\* y_pred = model.predict(X_test); mae, r2
TM_Evaluate ==
    /\ At(TM, "evaluate")
    /\ metrics' = [mae |-> "float", r2 |-> "float"]
    /\ Goto("dump_model")
    /\ UNCHANGED <<inputVars, frameVars, arrayVars, split, model, fileVars>>

TM_DumpModel == At(TM, "dump_model") /\ DumpModel("dump_metadata")

\* faulty variant: the metadata block copied from the classifier script with its list
TM_Metadata_CopyPasted ==
    [feature_columns |-> FeatureColumnsSC,
     model_type |-> "RandomForestRegressor",
     n_estimators |-> N_ESTIMATORS,
     train_samples |-> LenTrain(split),
     test_samples |-> LenTest(split),
     mae |-> metrics.mae,
     r2_score |-> metrics.r2,
     accuracy_percent |-> metrics.r2]

TM_Metadata ==
    [feature_columns |-> feature_columns,
     model_type |-> "RandomForestRegressor",
     n_estimators |-> N_ESTIMATORS,
     train_samples |-> LenTrain(split),
     test_samples |-> LenTest(split),
     mae |-> metrics.mae,
     r2_score |-> metrics.r2,
     accuracy_percent |-> metrics.r2]

TM_DumpMetadata == At(TM, "dump_metadata") /\ DumpMetadata(TM_Metadata)

----------------------------------------------------------------------------
(* scripts/trainPriorityFeeML.py *)

PF_Load == At(PF, "load") /\ Load("filter")

\* df_success = df[df['success'] == True].copy()
\* df_success = df_success[df_success['priorityFee'] > 0]
PF_Filter ==
    /\ At(PF, "filter")
    /\ IF ~ColumnsExist(df, {"success", "priorityFee"})
       THEN Abort("KeyError") /\ UNCHANGED df_success
       ELSE /\ df_success' = SelectSeq(SelectSeq(df, IsSuccess), HasPositiveFee)
            /\ Goto("check")
    /\ UNCHANGED <<inputVars, data, df, medianOver, arrayVars, fitVars, fileVars>>

\* faulty variant: the comparison off by one
TooFew_OffByOne(n) == n <= MIN_SAMPLES

\* len(df_success) < 50
TooFew(n) == n < MIN_SAMPLES

\* if len(df_success) < 50: print(...); exit(1)
PF_CheckMin ==
    /\ At(PF, "check")
    /\ IF TooFew(Rows(df_success))
       THEN pc' = "done" /\ status' = "exit1" /\ error' = "SystemExit"
       ELSE Goto("encode")
    /\ UNCHANGED <<inputVars, frameVars, arrayVars, fitVars, fileVars>>

PF_Encode ==
    /\ At(PF, "encode")
    /\ IF ~ColumnExists(df, "programId")
       THEN Abort("KeyError") /\ UNCHANGED df_success
       ELSE /\ df_success' = OneHot(df_success, "programId")
            /\ Goto("impute")
    /\ UNCHANGED <<inputVars, data, df, medianOver, arrayVars, fitVars, fileVars>>

\* faulty variant: the median taken over the unfiltered frame
PF_MedianInput_Unfiltered(whole, filtered) == whole

\* the frame whose median fills the missing values: df_success
PF_MedianInput(whole, filtered) == filtered

\* df_success['computeUnitsUsed'] =
\*     df_success['computeUnitsUsed'].fillna(df_success['computeUnitsUsed'].median())
PF_Impute ==
    /\ At(PF, "impute")
    /\ IF ~ColumnExists(df, "computeUnitsUsed")
       THEN Abort("KeyError") /\ UNCHANGED <<df_success, medianOver>>
       ELSE /\ medianOver' = Ids(PF_MedianInput(df, df_success))
            /\ df_success' = FillNa(df_success, Median(PF_MedianInput(df, df_success)))
            /\ Goto("build")
    /\ UNCHANGED <<inputVars, data, df, arrayVars, fitVars, fileVars>>

\* X = df_success[feature_columns].values; y = df_success['priorityFee'].values
PF_BuildXy ==
    /\ At(PF, "build")
    /\ feature_columns' = FeatureColumnsPF
    /\ IF ~ColumnsExist(df, {"instructionCount", "accountCount", "slotTime"})
       THEN Abort("KeyError") /\ UNCHANGED <<X, y>>
       ELSE /\ X' = Features(df_success, feature_columns')
            /\ y' = [i \in DOMAIN df_success |-> df_success[i].rec.priorityFee]
            /\ Goto("split")
    /\ UNCHANGED <<inputVars, frameVars, fitVars, fileVars>>

PF_Split == At(PF, "split") /\ Split("fit")

PF_Fit == At(PF, "fit") /\ Fit("RandomForestRegressor", "evaluate")

\* y_pred = model.predict(X_test); mae, rmse, r2
PF_Evaluate ==
    /\ At(PF, "evaluate")
    /\ metrics' = [mae |-> "float", rmse |-> "float", r2 |-> "float"]
    /\ Goto("dump_model")
    /\ UNCHANGED <<inputVars, frameVars, arrayVars, split, model, fileVars>>

PF_DumpModel == At(PF, "dump_model") /\ DumpModel("dump_metadata")

\* faulty variant: total_dataset left out, as in the classifier script
PF_Metadata_NoTotal ==
    [model_type |-> "RandomForestRegressor",
     n_estimators |-> N_ESTIMATORS,
     feature_columns |-> feature_columns,
     train_samples |-> LenTrain(split),
     test_samples |-> LenTest(split),
     mae |-> metrics.mae,
     rmse |-> metrics.rmse,
     r2_score |-> metrics.r2,
     accuracy_percent |-> metrics.r2,
     trained_on_transactions |-> Rows(df_success)]

PF_Metadata ==
    [model_type |-> "RandomForestRegressor",
     n_estimators |-> N_ESTIMATORS,
     feature_columns |-> feature_columns,
     train_samples |-> LenTrain(split),
     test_samples |-> LenTest(split),
     mae |-> metrics.mae,
     rmse |-> metrics.rmse,
     r2_score |-> metrics.r2,
     accuracy_percent |-> metrics.r2,
     trained_on_transactions |-> Rows(df_success),
     total_dataset |-> Rows(data)]

PF_DumpMetadata == At(PF, "dump_metadata") /\ DumpMetadata(PF_Metadata)

----------------------------------------------------------------------------
(* scripts/trainSuccessClassifier.py *)

SC_Load == At(SC, "load") /\ Load("describe")

\* print(... df['success'].sum() ... (~df['success']).sum() ...)
SC_Describe ==
    /\ At(SC, "describe")
    /\ IF ~ColumnExists(df, "success") THEN Abort("KeyError") ELSE Goto("encode")
    /\ UNCHANGED <<inputVars, frameVars, arrayVars, fitVars, fileVars>>

SC_Encode ==
    /\ At(SC, "encode")
    /\ IF ~ColumnExists(df, "programId")
       THEN Abort("KeyError") /\ UNCHANGED df
       ELSE /\ df' = OneHot(df, "programId")
            /\ Goto("impute")
    /\ UNCHANGED <<inputVars, data, df_success, medianOver, arrayVars, fitVars, fileVars>>

\* df['computeUnitsUsed'] = df['computeUnitsUsed'].fillna(df['computeUnitsUsed'].median())
SC_Impute ==
    /\ At(SC, "impute")
    /\ IF ~ColumnExists(df, "computeUnitsUsed")
       THEN Abort("KeyError") /\ UNCHANGED <<df, medianOver>>
       ELSE /\ medianOver' = Ids(df)
            /\ df' = FillNa(df, Median(df))
            /\ Goto("build")
    /\ UNCHANGED <<inputVars, data, df_success, arrayVars, fitVars, fileVars>>

\* X = df[feature_columns].values; y = df['success'].astype(int).values
SC_BuildXy ==
    /\ At(SC, "build")
    /\ feature_columns' = FeatureColumnsSC
    /\ IF ~ColumnsExist(df, {"instructionCount", "accountCount", "priorityFee", "slotTime"})
       THEN Abort("KeyError") /\ UNCHANGED <<X, y>>
       ELSE /\ X' = Features(df, feature_columns')
            /\ y' = [i \in DOMAIN df |-> IF df[i].rec.success THEN 1 ELSE 0]
            /\ Goto("split")
    /\ UNCHANGED <<inputVars, frameVars, fitVars, fileVars>>

\* train_test_split(X, y, test_size=0.2, random_state=42, stratify=y)
SC_Split ==
    /\ At(SC, "split")
    /\ LET cnts == [i \in DOMAIN X |-> X[i].cnt] IN
       IF StratifyFails(cnts, y)
       THEN Abort("ValueError") /\ UNCHANGED split
       ELSE /\ \E sp \in StratifiedSplits(cnts, y) : split' = sp
            /\ Goto("fit")
    /\ UNCHANGED <<inputVars, frameVars, arrayVars, model, metrics, fileVars>>

SC_Fit == At(SC, "fit") /\ Fit("RandomForestClassifier", "evaluate")

\* y_pred = model.predict(X_test)
\* y_pred_proba = model.predict_proba(X_test)[:, 1]: IndexError when the
\* forest was fitted on one class, predict_proba having one column then
SC_Evaluate ==
    /\ At(SC, "evaluate")
    /\ IF Cardinality(model.classes) < 2
       THEN Abort("IndexError") /\ UNCHANGED metrics
       ELSE /\ metrics' = [accuracy |-> "float", precision |-> "float",
                           recall |-> "float", f1 |-> "float"]
            /\ Goto("dump_model")
    /\ UNCHANGED <<inputVars, frameVars, arrayVars, split, model, fileVars>>

SC_DumpModel == At(SC, "dump_model") /\ DumpModel("dump_metadata")

SC_Metadata ==
    [model_type |-> "RandomForestClassifier",
     n_estimators |-> N_ESTIMATORS,
     feature_columns |-> feature_columns,
     train_samples |-> LenTrain(split),
     test_samples |-> LenTest(split),
     accuracy |-> metrics.accuracy,
     precision |-> metrics.precision,
     recall |-> metrics.recall,
     f1_score |-> metrics.f1,
     accuracy_percent |-> metrics.accuracy,
     trained_on_transactions |-> Rows(data)]

SC_DumpMetadata == At(SC, "dump_metadata") /\ DumpMetadata(SC_Metadata)

----------------------------------------------------------------------------
(* The specifications *)

NextTM ==
    \/ TM_Load \/ TM_Filter \/ TM_Encode \/ TM_BuildXy \/ TM_Split
    \/ TM_Fit \/ TM_Evaluate \/ TM_DumpModel \/ TM_DumpMetadata

NextPF ==
    \/ PF_Load \/ PF_Filter \/ PF_CheckMin \/ PF_Encode \/ PF_Impute
    \/ PF_BuildXy \/ PF_Split \/ PF_Fit \/ PF_Evaluate \/ PF_DumpModel
    \/ PF_DumpMetadata

NextSC ==
    \/ SC_Load \/ SC_Describe \/ SC_Encode \/ SC_Impute \/ SC_BuildXy
    \/ SC_Split \/ SC_Fit \/ SC_Evaluate \/ SC_DumpModel \/ SC_DumpMetadata

Next == NextTM \/ NextPF \/ NextSC

Spec == Init /\ [][Next]_vars

SpecClassifier == InitClassifier /\ [][NextSC]_vars

----------------------------------------------------------------------------
(* Properties *)

\* the block has run (to its end or to an exception)
Reached(block) == block \in Range(trace)
Ended == status # "running"
FilesUntouched == modelFile = NoFile /\ metaFile = NoFile

\* the frame the features are taken from
Frame == IF script = SC THEN df ELSE df_success

\* the records of the input that pass the script's filters
Survivors ==
    IF script = TM THEN SelectSeq(SelectSeq(data, IsSuccess), HasComputeUnits)
    ELSE IF script = PF THEN SelectSeq(SelectSeq(data, IsSuccess), HasPositiveFee)
    ELSE data

Abs(a) == IF a < 0 THEN -a ELSE a

\* C1: whenever the run has ended, either both the model file and the
\* metadata file have been written, or neither has been touched.
C1_AllOrNothing ==
    Ended => \/ modelFile.state = "written" /\ metaFile.state = "written"
             \/ FilesUntouched

BadInput == inputFile.state \in {"absent", "malformed"} \/ inputFile.records = <<>>

C3_BadInputAborts ==
    BadInput =>
        /\ ~Reached("split") /\ ~Reached("fit")
        /\ FilesUntouched
        /\ status # "exit0"
        /\ Len(trace) >= 2 => status = "exit1"

C3_Witness ==
    /\ inputFile = JsonFile(<<>>)
    /\ status = "exit1"
    /\ error = "KeyError"

\* the position of computeUnitsUsed in the rows of X
CuColumns == {j \in DOMAIN feature_columns : feature_columns[j] = "computeUnitsUsed"}

\* C4: in the two scripts that impute computeUnitsUsed, no feature vector
\* handed to the split holds an absent computeUnitsUsed.
C4_NoAbsentAfterImputation ==
    (script \in {PF, SC} /\ Reached("split")) =>
        \A i \in DOMAIN X : \A j \in CuColumns : X[i].vec[j] # NaN

\* C5: the filters run before the imputation and before the split; the rows
\* handed to the split are exactly the records that passed the filters; the
\* median that fills the missing computeUnitsUsed is the one over those rows.
C5_FilterBeforeImputeAndSplit ==
    /\ \A i, j \in DOMAIN trace :
           (trace[i] = "filter" /\ trace[j] \in {"impute", "split"}) => i < j
    /\ Reached("split") =>
           /\ Ids(X) = Ids(Survivors)
           /\ script \in {PF, SC} =>
                  /\ medianOver = Ids(X)
                  /\ \A i \in DOMAIN X : \A j \in CuColumns :
                         X[i].vec[j] =
                             IF Survivors[i].rec.computeUnitsUsed = NaN
                             THEN Median(Survivors)
                             ELSE Survivors[i].rec.computeUnitsUsed

C5_Witness ==
    /\ script = PF
    /\ Reached("split")
    /\ Rows(data) > Rows(Survivors)
    /\ \E i \in DOMAIN X : \E j \in CuColumns :
           Survivors[i].rec.computeUnitsUsed = NaN /\ X[i].vec[j] # NaN

\* C6: a split that succeeds is a partition of the n rows handed to it:
\* every record is in exactly one of train and test, the sizes add up to n
\* (and to trained_on_transactions where the metadata has it), and the test
\* size is within one sample of 0.2 * n.
C6_SplitIsPartition ==
    split # NoSplit =>
        LET n == Rows(X) IN
        /\ \A i \in DOMAIN X :
               /\ split.train[i] >= 0 /\ split.test[i] >= 0
               /\ split.train[i] + split.test[i] = X[i].cnt
        /\ LenTrain(split) + LenTest(split) = n
        /\ Abs(5 * LenTest(split) - n) < 5
        /\ (metaFile.state = "written"
            /\ "trained_on_transactions" \in DOMAIN metaFile.content) =>
               /\ metaFile.content.trained_on_transactions = n
               /\ metaFile.content.train_samples + metaFile.content.test_samples = n

C6_Witness ==
    /\ script = PF
    /\ metaFile.state = "written"
    /\ Rows(X) % 5 # 0
    /\ Rows(data) > Rows(X)

\* C7: after a stratified split, the number of records of each class in the
\* train subset and in the test subset is within one sample of the class's
\* share of the dataset times the size of the subset.
C7_StratifiedProportions ==
    (script = SC /\ split # NoSplit) =>
        LET cnts == [i \in DOMAIN X |-> X[i].cnt]
            n == SumSeq(cnts)
        IN \A c \in {0, 1} :
               /\ Abs(ClassCount(split.train, y, c) * n
                      - ClassCount(cnts, y, c) * LenTrain(split)) <= n
               /\ Abs(ClassCount(split.test, y, c) * n
                      - ClassCount(cnts, y, c) * LenTest(split)) <= n

C7_Witness ==
    /\ script = SC
    /\ split # NoSplit
    /\ LET cnts == [i \in DOMAIN X |-> X[i].cnt] IN
       /\ ClassCount(cnts, y, 1) >= 2
       /\ ClassCount(cnts, y, 0) >= 2
       /\ (ClassCount(cnts, y, 1) * LenTest(split)) % SumSeq(cnts) # 0
       /\ ClassCount(split.test, y, 1) >= 1
       /\ ClassCount(split.test, y, 0) >= 1

\* C8: the feature_columns list of the metadata file is, element by element,
\* the list the rows the model was fitted on were assembled with; in
\* trainModel.py it is the seven declared columns.
C8_FeatureColumnsMatch ==
    metaFile.state = "written" =>
        LET written == metaFile.content.feature_columns IN
        /\ Len(written) = Len(feature_columns)
        /\ \A j \in DOMAIN written : written[j] = feature_columns[j]
        /\ modelFile.content.n_features = Len(written)
        /\ \A i \in DOMAIN X : X[i].vec = FeatureVector(Frame[i].rec, written)
        /\ script = TM =>
               written = <<"instructionCount", "accountCount", "dataSize",
                           "priorityFee", "networkCongestion",
                           "program_jupiter", "program_raydium">>

C8_Witness ==
    /\ script = TM
    /\ status = "exit0"
    /\ Len(X) >= 2
    /\ Len(metaFile.content.feature_columns) = 7

CommonKeys == {"model_type", "n_estimators", "feature_columns",
               "train_samples", "test_samples"}
MetricKeys == IF script = SC THEN {"accuracy", "precision", "recall", "f1_score"}
              ELSE {"mae", "r2_score", "accuracy_percent"}

\* C9 as stated: after a successful run the metadata has the common keys,
\* trained_on_transactions, total_dataset and the metric keys of its kind.
C9_AllKeysInEveryScript ==
    status = "exit0" =>
        (CommonKeys \cup {"trained_on_transactions", "total_dataset"} \cup MetricKeys)
            \subseteq DOMAIN metaFile.content

\* C9 amended: after a successful run the metadata has the common keys and
\* the metric keys of its kind; trained_on_transactions is there in
\* trainPriorityFeeML.py and trainSuccessClassifier.py only, total_dataset
\* in trainPriorityFeeML.py only.
C9_KeysPerScript ==
    status = "exit0" =>
        /\ (CommonKeys \cup MetricKeys) \subseteq DOMAIN metaFile.content
        /\ "trained_on_transactions" \in DOMAIN metaFile.content <=> script \in {PF, SC}
        /\ "total_dataset" \in DOMAIN metaFile.content <=> script = PF

C9_Witness ==
    /\ script = PF
    /\ status = "exit0"
    /\ metaFile.state = "written"
    /\ metaFile.content.total_dataset > metaFile.content.trained_on_transactions

\* C10: for every record that reaches feature assembly, program_jupiter is 1
\* exactly when its program identifier is the Jupiter one and 0 otherwise,
\* program_raydium likewise for the Raydium one, and never both are 1.
C10_OneHotFlags ==
    Reached("build") =>
        \A i \in DOMAIN Frame :
            LET r == Frame[i].rec
                id == r[ProgramColumn(script)]
            IN /\ {"program_jupiter", "program_raydium"} \subseteq DOMAIN r
               /\ r.program_jupiter = (IF id = JUPITER THEN 1 ELSE 0)
               /\ r.program_raydium = (IF id = RAYDIUM THEN 1 ELSE 0)
               /\ ~(r.program_jupiter = 1 /\ r.program_raydium = 1)
               /\ X # <<>> =>
                      /\ X[i].vec[Len(feature_columns) - 1] = r.program_jupiter
                      /\ X[i].vec[Len(feature_columns)] = r.program_raydium

C10_Witness ==
    /\ Reached("build")
    /\ X # <<>>
    /\ \E i, j, k \in DOMAIN Frame :
           /\ Frame[i].rec.program_jupiter = 1
           /\ Frame[j].rec.program_raydium = 1
           /\ Frame[k].rec[ProgramColumn(script)] = OTHER_PROGRAM

====
